---- MODULE Spec2Model ----
(***************************************************************************)
(* mymltoolkit: the composition core.                                      *)
(*                                                                         *)
(*   Component      src/src/mymltoolkit/component.py  41-63                *)
(*   ComponentList  src/src/mymltoolkit/component.py 137-190               *)
(*   Task           src/src/mymltoolkit/component.py 193-254               *)
(*   MultiComponent src/src/mymltoolkit/__init__.py  220-323               *)
(*                                                                         *)
(* Components live in a heap (the sequence comps); a reference to a        *)
(* Component is its index, and the reference None is 0.  A ComponentList   *)
(* and a Task never change after construction, so they are values.         *)
(* ret is what the last operation returned or raised; clean and made are   *)
(* history variables: whether every link made so far joined two free ends, *)
(* and the inputs the program's MultiComponent was constructed from.       *)
(* Logging (_info, logger.info) and the description field only feed the    *)
(* trace output and are left out.                                          *)
(***************************************************************************)
EXTENDS Integers, Sequences, FiniteSets, TLC

VARIABLES comps, lists, tasks, multis, ret, clean, made

vars == <<comps, lists, tasks, multis, ret, clean, made>>

\* The reference None (Component.next / Component.prev default).
None == 0

\* name=None; `name or "(unnamed)"` and `if not self.name` treat None and ""
\* alike, so both are the empty string here.
NoName == ""

(***************************************************************************)
(* Component and ComponentList                                             *)
(***************************************************************************)

\* @dataclass Component: a freshly constructed one has next = prev = None.
Component(func, inverse_func, name) ==
    [func |-> func, inverse_func |-> inverse_func, name |-> name,
     next |-> None, prev |-> None]

\* @dataclass ComponentList(first, last)
ComponentList(first, last) == [first |-> first, last |-> last]

\* add_after that forgets the back link: self.last.next = other only.
add_after_no_prev(h, self, other) ==
    [heap |-> [h EXCEPT ![self.last].next = other],
     list |-> ComponentList(self.first, other)]

\* ComponentList.add_after: self.last.next = other; other.prev = self.last
add_after(h, self, other) ==
    [heap |-> [[h EXCEPT ![self.last].next = other]
                  EXCEPT ![other].prev = self.last],
     list |-> ComponentList(self.first, other)]

\* ComponentList.add_before: self.first.prev = other; other.next = self.first
add_before(h, self, other) ==
    [heap |-> [[h EXCEPT ![self.first].prev = other]
                  EXCEPT ![other].next = self.first],
     list |-> ComponentList(other, self.last)]

\* ComponentList.concat: self.last.next = other.first; other.first.prev = self.last
concat(h, self, other) ==
    [heap |-> [[h EXCEPT ![self.last].next = other.first]
                  EXCEPT ![other.first].prev = self.last],
     list |-> ComponentList(self.first, other.last)]

\* The generator loops of __iter__ / reverse_iter: `cur` has been yielded;
\* while cur.<link> is not None, yield it and move on.  A walk that yields
\* more components than the heap holds has entered a cycle and never ends:
\* done = FALSE then, and items is the prefix yielded so far.
RECURSIVE Walk(_, _, _, _)
Walk(h, cur, fwd, acc) ==
    LET nxt == IF fwd THEN h[cur].next ELSE h[cur].prev
    IN  IF nxt = None THEN [items |-> acc, done |-> TRUE]
        ELSE IF Len(acc) > Len(h) THEN [items |-> acc, done |-> FALSE]
        ELSE Walk(h, nxt, fwd, Append(acc, nxt))

\* __iter__ that stops at self.last where the chain goes on beyond it.
Iter_to_last(h, self) ==
    LET w == Walk(h, self.first, TRUE, <<self.first>>)
        at == {i \in 1..Len(w.items) : w.items[i] = self.last}
    IN  IF at = {} THEN w
        ELSE [items |-> SubSeq(w.items, 1, CHOOSE i \in at : \A j \in at : i <= j),
              done |-> TRUE]

\* ComponentList.__iter__
Iter(h, self) == Walk(h, self.first, TRUE, <<self.first>>)

\* ComponentList.reverse_iter
reverse_iter(h, self) == Walk(h, self.last, FALSE, <<self.last>>)

\* reversed(list(...))
Reversed(s) == [i \in 1..Len(s) |-> s[Len(s) + 1 - i]]

\* " -> ".join(names): the string as the sequence of its pieces.
RECURSIVE Join(_, _)
Join(sep, names) ==
    IF names = <<>> THEN <<>>
    ELSE IF Len(names) = 1 THEN <<names[1]>>
    ELSE <<names[1], sep>> \o Join(sep, Tail(names))

\* ComponentList.__str__
ListStr(h, self) ==
    LET it == Iter(h, self).items
    IN  Join(" -> ", [i \in 1..Len(it) |->
                        IF h[it[i]].name # NoName THEN h[it[i]].name
                        ELSE "(unnamed)"])

(***************************************************************************)
(* Python values, callables and their results                              *)
(***************************************************************************)

\* The values the pipelines carry: int, None and tuple.
IntV(n) == [t |-> "int", n |-> n]
NoneV == [t |-> "None"]
TupV(s) == [t |-> "tuple", items |-> s]

\* isinstance(v, collections.abc.Iterable)
IsIterable(v) == v.t = "tuple"

\* bool(v)
Truthy(v) ==
    CASE v.t = "int" -> v.n # 0
      [] v.t = "None" -> FALSE
      [] v.t = "tuple" -> v.items # <<>>

\* How a call ends: it returns val, or it raises err, or (status "loop") it is
\* still running after executing more components than the heap holds, which
\* only a cycle of links allows.  trace lists the components whose func or
\* inverse_func was invoked, in order, each with the _level it ran at and
\* the error its invocation ended with (NoErr when it returned).
NoVal == [t |-> "absent"]
NoErr == [exc |-> "none", by |-> "none"]
Return(v) == [status |-> "ok", val |-> v, err |-> NoErr, trace |-> <<>>]
Raise(exc, by) ==
    [status |-> "raise", val |-> NoVal, err |-> [exc |-> exc, by |-> by], trace |-> <<>>]

\* sys.getrecursionlimit(): nested calls deeper than this raise RecursionError.
RecursionLimit == 3

\* @component-built callables of the test suite: functools.partial(func, *pre, c=kw)
\* tests/test_component.py  foo, bar, baz
Partial(fn, pre, kw) == [fn |-> fn, pre |-> pre, kw |-> kw]
\* @class_component instances: add(a), subtract(a) and their inverse methods
Method(fn, a) == [fn |-> fn, a |-> a]
\* _identity, the default inverse_func
identity == [fn |-> "_identity"]

\* def foo(a=None, b=None, *, c=3, **extra)
foo(a, c) ==
    IF Len(a) > 2 THEN Raise("TypeError", "foo")
    ELSE LET x == IF Len(a) >= 1 THEN a[1] ELSE NoneV
             y == IF Len(a) >= 2 THEN a[2] ELSE NoneV
         IN  IF ~(Truthy(x) /\ Truthy(y)) THEN Return(NoneV)
             ELSE IF x.t = "int" /\ y.t = "int" THEN Return(IntV(x.n + y.n + c))
             ELSE Raise("TypeError", "foo")

\* def bar(a=None, **extra)
bar(a) ==
    IF Len(a) > 1 THEN Raise("TypeError", "bar")
    ELSE LET x == IF Len(a) >= 1 THEN a[1] ELSE NoneV
         IN  IF ~Truthy(x) THEN Return(NoneV)
             ELSE IF x.t = "int" THEN Return(TupV(<<IntV(x.n \div 2), IntV(42)>>))
             ELSE Raise("TypeError", "bar")

\* def baz(a=None, b=None, **extra)
baz(a) ==
    IF Len(a) > 2 THEN Raise("TypeError", "baz")
    ELSE LET x == IF Len(a) >= 1 THEN a[1] ELSE NoneV
             y == IF Len(a) >= 2 THEN a[2] ELSE NoneV
         IN  IF ~(Truthy(x) /\ Truthy(y)) THEN Return(NoneV)
             ELSE IF x.t = "int" /\ y.t = "int" THEN Return(IntV(x.n + y.n))
             ELSE IF x.t = "tuple" /\ y.t = "tuple" THEN Return(TupV(x.items \o y.items))
             ELSE Raise("TypeError", "baz")

\* add.__call__(self, b) = self.a + b, add.inverse(self, c) = c - self.a,
\* subtract.__call__(self, b) = b - self.a, subtract.inverse(self, c) = c + self.a:
\* one positional argument, an int; d is +self.a or -self.a.
Arith(by, a, d) ==
    IF Len(a) # 1 THEN Raise("TypeError", by)
    ELSE IF a[1].t # "int" THEN Raise("TypeError", by)
    ELSE Return(IntV(a[1].n + d))

\* _identity that always returns the argument tuple: return args
Identity_args(a) == Return(TupV(a))

\* def _identity(*args, **kwargs): return args if len(args) > 1 else args[0]
Identity(a) ==
    IF Len(a) > 1 THEN Return(TupV(a))
    ELSE IF Len(a) = 1 THEN Return(a[1])
    ELSE Raise("IndexError", "_identity")

(***************************************************************************)
(* Task and MultiComponent                                                 *)
(***************************************************************************)

\* @dataclass Task(components, name)
Task(components, name) == [components |-> components, name |-> name]

\* ComponentList.to_task(name)
to_task(self, name) == Task(self, name)

\* MultiComponent: self.tasks = tuple(new_tasks)
MultiComponent(new_tasks, name) == [tasks |-> new_tasks, name |-> name]

\* What Task.as_component / MultiComponent.as_component store in a Component:
\* func is the task itself (its __call__), inverse_func is its bound inverse.
CallOf(kind, obj) == [fn |-> kind, obj |-> obj]

RECURSIVE Apply(_, _, _, _), RunLoop(_, _, _, _, _, _, _), MultiLoop(_, _, _, _, _, _, _, _)

\* A loop that catches a component's error and carries on with None:
\*   try: args = component.func(*args, ...)
\*   except Exception: args = None
RECURSIVE RunLoop_swallow(_, _, _, _, _, _, _)
RunLoop_swallow(h, cur, fwd, args, level, n, trace) ==
    LET a == IF IsIterable(args) THEN args.items ELSE <<args>>
        f == IF fwd THEN h[cur].func ELSE h[cur].inverse_func
        r == Apply(h, f, a, level + 1)
        tr == (trace \o <<[c |-> cur, level |-> level, err |-> r.err]>>) \o r.trace
        nxt == IF fwd THEN h[cur].next ELSE h[cur].prev
    IN  IF r.status = "loop" \/ nxt = None THEN [r EXCEPT !.trace = tr]
        ELSE IF n > Len(h)
             THEN [status |-> "loop", val |-> NoVal, err |-> NoErr, trace |-> tr]
        ELSE RunLoop_swallow(h, nxt, fwd, IF r.status = "ok" THEN r.val ELSE NoneV,
                             level, n + 1, tr)

\* Task.__call__ (fwd) and Task.inverse (~fwd): the body of the for loop for
\* component `cur`, the n-th of this run, then the rest of the loop.
\*   if not isinstance(args, Iterable): args = (args,)
\*   args = component.func(*args, indent=indent, _level=_level + 1)
RunLoop(h, cur, fwd, args, level, n, trace) ==
    LET a == IF IsIterable(args) THEN args.items ELSE <<args>>
        f == IF fwd THEN h[cur].func ELSE h[cur].inverse_func
        r == Apply(h, f, a, level + 1)
        tr == (trace \o <<[c |-> cur, level |-> level, err |-> r.err]>>) \o r.trace
        nxt == IF fwd THEN h[cur].next ELSE h[cur].prev
    IN  IF r.status # "ok" THEN [r EXCEPT !.trace = tr]
        ELSE IF nxt = None THEN [r EXCEPT !.trace = tr]
        ELSE IF n > Len(h)
             THEN [status |-> "loop", val |-> NoVal, err |-> NoErr, trace |-> tr]
        ELSE RunLoop(h, nxt, fwd, r.val, level, n + 1, tr)

\* Task.__call__ calling the first component with the argument tuple itself,
\* func(args) for func(*args).
TaskCall_unstarred(h, self, a, level) ==
    IF level > RecursionLimit THEN Raise("RecursionError", "python")
    ELSE RunLoop(h, self.components.first, TRUE, TupV(<<TupV(a)>>), level, 1, <<>>)

\* Task.__call__(*args, _level): for component in self.components: ...; return args
TaskCall(h, self, a, level) ==
    IF level > RecursionLimit THEN Raise("RecursionError", "python")
    ELSE RunLoop(h, self.components.first, TRUE, TupV(a), level, 1, <<>>)

\* Task.inverse(*args, _level): for component in self.components.reverse_iter(): ...
TaskInverse(h, self, a, level) ==
    IF level > RecursionLimit THEN Raise("RecursionError", "python")
    ELSE RunLoop(h, self.components.last, FALSE, TupV(a), level, 1, <<>>)

\* The loop of MultiComponent.__call__ / inverse over zip(self.tasks, args):
\*   outputs.append(task(arg, indent=indent, _level=_level + 1))
MultiLoop(h, ts, a, fwd, level, i, outputs, trace) ==
    IF i > Len(ts)
    THEN [status |-> "ok", val |-> TupV(outputs), err |-> NoErr, trace |-> trace]
    ELSE LET r == IF fwd THEN TaskCall(h, ts[i], <<a[i]>>, level + 1)
                  ELSE TaskInverse(h, ts[i], <<a[i]>>, level + 1)
         IN  IF r.status # "ok" THEN [r EXCEPT !.trace = trace \o r.trace]
             ELSE MultiLoop(h, ts, a, fwd, level, i + 1,
                            Append(outputs, r.val), trace \o r.trace)

\* MultiComponent.__call__ without the length check: zip() stops at the
\* shorter of self.tasks and args.
MultiCall_zip(h, self, a, level) ==
    IF level > RecursionLimit THEN Raise("RecursionError", "python")
    ELSE LET n == IF Len(a) < Len(self.tasks) THEN Len(a) ELSE Len(self.tasks)
         IN  MultiLoop(h, SubSeq(self.tasks, 1, n), a, TRUE, level, 1, <<>>, <<>>)

\* MultiComponent.__call__(*args, _level)
MultiCall(h, self, a, level) ==
    IF level > RecursionLimit THEN Raise("RecursionError", "python")
    ELSE IF Len(a) # Len(self.tasks) THEN Raise("ValueError", "MultiComponent")
    ELSE MultiLoop(h, self.tasks, a, TRUE, level, 1, <<>>, <<>>)

\* MultiComponent.inverse(*args, _level)
MultiInverse(h, self, a, level) ==
    IF level > RecursionLimit THEN Raise("RecursionError", "python")
    ELSE IF Len(a) # Len(self.tasks) THEN Raise("ValueError", "MultiComponent")
    ELSE MultiLoop(h, self.tasks, a, FALSE, level, 1, <<>>, <<>>)

\* Calling a Component's func or inverse_func with positional arguments a.
Apply(h, f, a, level) ==
    CASE f.fn = "foo" -> foo(f.pre \o a, f.kw)
      [] f.fn = "bar" -> bar(f.pre \o a)
      [] f.fn = "baz" -> baz(f.pre \o a)
      [] f.fn = "add.__call__" -> Arith("add", a, f.a)
      [] f.fn = "add.inverse" -> Arith("add", a, 0 - f.a)
      [] f.fn = "subtract.__call__" -> Arith("subtract", a, 0 - f.a)
      [] f.fn = "subtract.inverse" -> Arith("subtract", a, f.a)
      [] f.fn = "_identity" -> Identity(a)
      [] f.fn = "Task.__call__" -> TaskCall(h, f.obj, a, level)
      [] f.fn = "Task.inverse" -> TaskInverse(h, f.obj, a, level)
      [] f.fn = "MultiComponent.__call__" -> MultiCall(h, f.obj, a, level)
      [] f.fn = "MultiComponent.inverse" -> MultiInverse(h, f.obj, a, level)

\* Task.as_component(): Component(self, self.inverse, name="subtask <name>")
\* (the name is the pair of its words)
Task_as_component(self) ==
    Component(CallOf("Task.__call__", self), CallOf("Task.inverse", self),
              IF self.name # NoName THEN "subtask " \o self.name ELSE "subtask")

\* MultiComponent.as_component()
Multi_as_component(self) ==
    Component(CallOf("MultiComponent.__call__", self),
              CallOf("MultiComponent.inverse", self),
              IF self.name # NoName THEN "multicomponent " \o self.name
              ELSE "multicomponent")

(***************************************************************************)
(* The chaining operator x | y                                             *)
(***************************************************************************)

\* The operands of | : a Component (by reference), a ComponentList, a Task
\* or a MultiComponent.
AComponent(ref) == [kind |-> "Component", ref |-> ref]
AList(list) == [kind |-> "ComponentList", list |-> list]
ATask(task) == [kind |-> "Task", task |-> task]
AMulti(multi) == [kind |-> "MultiComponent", multi |-> multi]

\* `return NotImplemented`
NotImplemented == [ok |-> FALSE]

\* Every chaining operation makes one link, tail.next = head and
\* head.prev = tail.  It joins two chains at their free ends when tail has no
\* next, head has no prev and head is not already in the chain that ends at
\* tail.
FreeEnds(h, tail, head) ==
    /\ h[tail].next = None
    /\ h[head].prev = None
    /\ LET chain == Walk(h, tail, FALSE, <<tail>>).items
       IN  \A i \in 1..Len(chain) : chain[i] # head

\* The result of a chaining operation that linked tail to head in heap h.
Linked(h, r, tail, head) ==
    [ok |-> TRUE, heap |-> r.heap, list |-> r.list, free |-> FreeEnds(h, tail, head)]

\* ComponentList.__or__
List_or(h, self, other) ==
    IF other.kind = "Component"
    THEN Linked(h, add_after(h, self, other.ref), self.last, other.ref)
    ELSE IF other.kind = "ComponentList"
    THEN Linked(h, concat(h, self, other.list), self.last, other.list.first)
    ELSE NotImplemented

\* __ror__ that appends where it should prepend: self.add_after(other).
List_ror_appending(h, self, other) ==
    IF other.kind = "Component"
    THEN Linked(h, add_after(h, self, other.ref), self.last, other.ref)
    ELSE NotImplemented

\* ComponentList.__ror__
List_ror(h, self, other) ==
    IF other.kind = "Component"
    THEN Linked(h, add_before(h, self, other.ref), other.ref, self.first)
    ELSE NotImplemented

\* Component.__or__: return ComponentList(self, self) | other
Component_or(h, self, other) ==
    IF other.kind = "Component"
    THEN List_or(h, ComponentList(self, self), other)
    ELSE NotImplemented

\* A fold that splices the new Component onto the task's own chain, as
\* `self.components | ...` would, before handing it on.
Folded_linking(h, x) ==
    Append(IF x.kind = "Task"
           THEN [h EXCEPT ![x.task.components.last].next = Len(h) + 1]
           ELSE h,
           IF x.kind = "Task" THEN Task_as_component(x.task)
           ELSE Multi_as_component(x.multi))

\* self.as_component() of a Task or MultiComponent operand, as a new
\* Component at the end of the heap.
Folded(h, x) ==
    Append(h, IF x.kind = "Task" THEN Task_as_component(x.task)
              ELSE Multi_as_component(x.multi))

\* Python's binary operator protocol for x | y: type(x).__or__(x, y), and if
\* that returns NotImplemented and the types differ, type(y).__ror__(y, x);
\* ok = FALSE is the TypeError for unsupported operands.
\*   Task.__or__ / MultiComponent.__or__:   return self.as_component() | other
\*   Task.__ror__ / MultiComponent.__ror__: return other | self.as_component()
RECURSIVE Or(_, _, _)
Or(h, x, y) ==
    LET folds(z) == z.kind \in {"Task", "MultiComponent"}
        first == CASE x.kind = "Component" -> Component_or(h, x.ref, y)
                   [] x.kind = "ComponentList" -> List_or(h, x.list, y)
                   [] folds(x) -> Or(Folded(h, x), AComponent(Len(h) + 1), y)
    IN  IF first.ok THEN first
        ELSE IF x.kind = y.kind THEN NotImplemented
        ELSE CASE y.kind = "ComponentList" -> List_ror(h, y.list, x)
               [] folds(y) -> Or(Folded(h, y), x, AComponent(Len(h) + 1))
               [] OTHER -> NotImplemented

(***************************************************************************)
(* The program: its objects and the operations on them                     *)
(***************************************************************************)

\* Bounds of the model: Components in the heap, ComponentLists kept.
MaxComps == 4
MaxLists == 2

\* Everything that can stand on either side of | .
Operands ==
    {AComponent(i) : i \in 1..Len(comps)} \cup {AList(l) : l \in lists}
      \cup {ATask(t) : t \in tasks} \cup {AMulti(m) : m \in multis}

NoRet == [op |-> "none"]

\* result = x | y
Linking(x, y) ==
    LET r == Or(comps, x, y)
    IN  /\ r.ok
        /\ comps' = r.heap
        /\ lists' = lists \cup {r.list}
        /\ clean' = (clean /\ r.free)
        /\ ret' = [op |-> "or", x |-> x, y |-> y, list |-> r.list, free |-> r.free]
        /\ UNCHANGED <<tasks, multis, made>>

\* result = x | y within the bounds of the model.
Chain(x, y) ==
    LET r == Or(comps, x, y)
    IN  /\ r.ok
        /\ Len(r.heap) <= MaxComps
        /\ Cardinality(lists \cup {r.list}) <= MaxLists
        /\ Linking(x, y)

\* Three unlinked Components: foo(c=3), bar() and Component(_identity).
ChainPool ==
    << Component(Partial("foo", <<>>, 3), identity, "foo"),
       Component(Partial("bar", <<>>, 0), identity, "bar"),
       Component(identity, identity, NoName) >>


\* result = x | y in a program that keeps the caller's side of Component's
\* contract: no Component is spliced while it is linked elsewhere, so every
\* operation joins two chains at their free ends.
DisciplinedChain(x, y) == Chain(x, y) /\ clean'

\* Bound of the model: Tasks kept.
MaxTasks == 2

\* The positional arguments the program calls its tasks with.
Inputs == { <<IntV(1), IntV(2)>>, <<IntV(6)>> }

\* task = l.to_task(name)
ToTask(l, name) ==
    /\ Cardinality(tasks \cup {to_task(l, name)}) <= MaxTasks
    /\ tasks' = tasks \cup {to_task(l, name)}
    /\ ret' = NoRet
    /\ UNCHANGED <<comps, lists, multis, clean, made>>

\* A call that consumes the chain it runs: it unlinks the first component.
Call_consuming(t, a) ==
    /\ ret' = [op |-> "call", task |-> t, args |-> a, res |-> TaskCall(comps, t, a, 0)]
    /\ comps' = [comps EXCEPT ![t.components.first].next = None]
    /\ UNCHANGED <<lists, tasks, multis, clean, made>>

\* result = t(*a)
Call(t, a) ==
    /\ ret' = [op |-> "call", task |-> t, args |-> a, res |-> TaskCall(comps, t, a, 0)]
    /\ UNCHANGED <<comps, lists, tasks, multis, clean, made>>

\* result = t.inverse(*a)
Inverse(t, a) ==
    /\ ret' = [op |-> "inverse", task |-> t, args |-> a,
               res |-> TaskInverse(comps, t, a, 0)]
    /\ UNCHANGED <<comps, lists, tasks, multis, clean, made>>

\* y = t(x) has just returned: result = t.inverse(y)
Back(t) ==
    /\ ret.op = "call"
    /\ ret.task = t
    /\ Len(ret.args) = 1
    /\ ret.res.status = "ok"
    /\ ret' = [op |-> "back", task |-> t, x |-> ret.args[1], args |-> <<ret.res.val>>,
               res |-> TaskInverse(comps, t, <<ret.res.val>>, 0)]
    /\ UNCHANGED <<comps, lists, tasks, multis, clean, made>>

\* The Components the programs start with, none linked yet.
\* test_task: foo(c=3), bar(), baz()
TestPool ==
    << Component(Partial("foo", <<>>, 3), identity, "foo"),
       Component(Partial("bar", <<>>, 0), identity, "bar"),
       Component(Partial("baz", <<>>, 0), identity, "baz") >>

\* test_inverse_component: add(2), subtract(5), add(3)
InversePool ==
    << Component(Method("add.__call__", 2), Method("add.inverse", 2), "add"),
       Component(Method("subtract.__call__", 5), Method("subtract.inverse", 5), "subtract"),
       Component(Method("add.__call__", 3), Method("add.inverse", 3), "add") >>

Start(pool) ==
    /\ comps = pool
    /\ lists = {}
    /\ tasks = {}
    /\ multis = {}
    /\ ret = NoRet
    /\ clean = TRUE
    /\ made = <<>>

Init == Start(TestPool)

Next ==
    \/ \E x \in Operands, y \in Operands : DisciplinedChain(x, y)
    \/ \E l \in lists : ToTask(l, "quux")
    \/ \E t \in tasks, a \in Inputs : Call(t, a)
    \/ \E t \in tasks, a \in Inputs : Inverse(t, a)
    \/ \E t \in tasks : Back(t)

\* Programs over the components of test_task.
Spec == Init /\ [][Next]_vars

InitInverse == Start(InversePool)

\* Programs over the components of test_inverse_component.
SpecInverse == InitInverse /\ [][Next]_vars

\* Programs of chaining operations alone, disciplined or not.
InitChain == Start(ChainPool)

NextChain == \E x \in Operands, y \in Operands : Chain(x, y)

SpecChain == InitChain /\ [][NextChain]_vars

(***************************************************************************)
(* (A | B) | C and A | (B | C)                                             *)
(***************************************************************************)

\* Component names, None among them.
Names == {"foo", "bar", "baz", NoName}

\* A, B, C: three unlinked Components (references 1, 2, 3) of any names.
InitAssoc ==
    /\ comps \in {<<Component(identity, identity, a), Component(identity, identity, b),
                     Component(identity, identity, c)>> : a \in Names, b \in Names, c \in Names}
    /\ lists = {}
    /\ tasks = {}
    /\ multis = {}
    /\ ret = NoRet
    /\ clean = TRUE
    /\ made = <<>>

\* ab = A | B
InnerLeft == lists = {} /\ Linking(AComponent(1), AComponent(2))

\* left = ab | C
OuterLeft ==
    /\ lists = {ComponentList(1, 2)}
    /\ Linking(AList(ComponentList(1, 2)), AComponent(3))

\* bc = B | C
InnerRight == lists = {} /\ Linking(AComponent(2), AComponent(3))

\* right = A | bc
OuterRight ==
    /\ lists = {ComponentList(2, 3)}
    /\ Linking(AComponent(1), AList(ComponentList(2, 3)))

NextAssoc == InnerLeft \/ OuterLeft \/ InnerRight \/ OuterRight

\* The programs left = (A | B) | C and right = A | (B | C).
SpecAssoc == InitAssoc /\ [][NextAssoc]_vars

(***************************************************************************)
(* MultiComponent programs                                                 *)
(***************************************************************************)

\* Bound of the model: inputs of one MultiComponent construction.
MaxArity == 2

\* A plain Python value handed to MultiComponent(...).
AValue(v) == [kind |-> "value", v |-> v]

\* bool(task) in `if not task:`.  Component, Task and MultiComponent define
\* neither __bool__ nor __len__ and are true; a ComponentList is true when
\* its __len__, len(list(iter(self))), is not 0.
TruthyInput(h, x) ==
    CASE x.kind = "value" -> Truthy(x.v)
      [] x.kind = "ComponentList" -> Len(Iter(h, x.list).items) # 0
      [] OTHER -> TRUE

\* The loop of MultiComponent.__init__ over tasks[i..]: ok = FALSE is the
\* TypeError.  The identity Component made for a false input is new in the
\* heap.
RECURSIVE Normalize(_, _, _, _)
Normalize(h, inputs, i, new_tasks) ==
    IF i > Len(inputs) THEN [ok |-> TRUE, heap |-> h, tasks |-> new_tasks]
    ELSE LET task == inputs[i]
         IN  IF ~TruthyInput(h, task)
             THEN Normalize(Append(h, Component(identity, identity, "identity")),
                            inputs, i + 1,
                            Append(new_tasks,
                                   to_task(ComponentList(Len(h) + 1, Len(h) + 1),
                                           "identity")))
             ELSE IF task.kind = "Component"
             THEN Normalize(h, inputs, i + 1,
                            Append(new_tasks,
                                   to_task(ComponentList(task.ref, task.ref),
                                           h[task.ref].name)))
             ELSE IF task.kind = "ComponentList"
             THEN Normalize(h, inputs, i + 1, Append(new_tasks, to_task(task.list, NoName)))
             ELSE IF task.kind = "Task"
             THEN Normalize(h, inputs, i + 1, Append(new_tasks, task.task))
             ELSE [ok |-> FALSE, heap |-> h, tasks |-> <<>>]

\* What the program hands to MultiComponent(...): its Components,
\* ComponentLists and Tasks, None, and the ints 0 and 5.
CtorInputs ==
    {AComponent(i) : i \in 1..Len(comps)} \cup {AList(l) : l \in lists}
      \cup {ATask(t) : t \in tasks}
      \cup {AValue(NoneV), AValue(IntV(0)), AValue(IntV(5))}

\* Tuples over S of length n.
Tuples(S, n) == [1..n -> S]

\* m = MultiComponent(*inputs), the one MultiComponent the program constructs;
\* a construction that raises leaves nothing behind but unreferenced objects.
NewMulti(inputs) ==
    LET r == Normalize(comps, inputs, 1, <<>>)
        m == MultiComponent(r.tasks, NoName)
    IN  /\ multis = {}
        /\ \A i \in 1..Len(inputs) :
              inputs[i].kind = "ComponentList" => Iter(comps, inputs[i].list).done
        /\ IF r.ok
           THEN /\ comps' = r.heap
                /\ multis' = {m}
                /\ made' = inputs
                /\ ret' = [op |-> "new", inputs |-> inputs, err |-> NoErr, multi |-> m]
           ELSE /\ ret' = [op |-> "new", inputs |-> inputs,
                           err |-> [exc |-> "TypeError", by |-> "MultiComponent"]]
                /\ UNCHANGED <<comps, multis, made>>
        /\ UNCHANGED <<lists, tasks, clean>>

\* The i-th positional argument of the two argument lists the program uses:
\* 5, 7, 9, ... and (1,), None, (3,), None, ...
ArgAt(k, i) ==
    IF k = 1 THEN IntV(2 * i + 3)
    ELSE IF i % 2 = 1 THEN TupV(<<IntV(i)>>) ELSE NoneV

\* The argument lists MultiComponents are called with: up to one more
\* argument than a MultiComponent can hold tasks.
MultiInputs == {[i \in 1..n |-> ArgAt(k, i)] : n \in 0..(MaxArity + 1), k \in 1..2}

\* result = m(*a)
CallMulti(m, a) ==
    /\ ret' = [op |-> "mcall", multi |-> m, args |-> a, res |-> MultiCall(comps, m, a, 0)]
    /\ UNCHANGED <<comps, lists, tasks, multis, clean, made>>

\* result = m.inverse(*a)
InverseMulti(m, a) ==
    /\ ret' = [op |-> "minverse", multi |-> m, args |-> a,
               res |-> MultiInverse(comps, m, a, 0)]
    /\ UNCHANGED <<comps, lists, tasks, multis, clean, made>>

\* test_multicomponent: add(3), subtract(6), add(4), subtract(4)
MultiPool ==
    << Component(Method("add.__call__", 3), Method("add.inverse", 3), "add"),
       Component(Method("subtract.__call__", 6), Method("subtract.inverse", 6), "subtract"),
       Component(Method("add.__call__", 4), Method("add.inverse", 4), "add"),
       Component(Method("subtract.__call__", 4), Method("subtract.inverse", 4), "subtract") >>

\* The state after a = add(3); s = subtract(6); l = add(4) | subtract(4);
\* t = l.to_task("identity").
InitMulti ==
    LET r == Or(MultiPool, AComponent(3), AComponent(4))
    IN  /\ comps = r.heap
        /\ lists = {r.list}
        /\ tasks = {to_task(r.list, "identity")}
        /\ multis = {}
        /\ ret = NoRet
        /\ clean = TRUE
        /\ made = <<>>

NextMulti ==
    \/ \E n \in 0..MaxArity : \E inputs \in Tuples(CtorInputs, n) : NewMulti(inputs)
    \/ \E m \in multis, a \in MultiInputs : CallMulti(m, a)
    \/ \E m \in multis, a \in MultiInputs : InverseMulti(m, a)

\* Programs over the components of test_multicomponent.
SpecMulti == InitMulti /\ [][NextMulti]_vars

(***************************************************************************)
(* Programs whose components fail                                          *)
(***************************************************************************)

\* bar(), bar() and add(2): bar returns a pair, which the next bar cannot
\* take; add and add.inverse take one int.
ErrPool ==
    << Component(Partial("bar", <<>>, 0), identity, "bar"),
       Component(Partial("bar", <<>>, 0), identity, "bar"),
       Component(Method("add.__call__", 2), Method("add.inverse", 2), "add") >>

\* The state after b1 = bar(); b2 = bar(); a = add(2);
\* inner = (b1 | b2).to_task("inner"); sub = inner.as_component();
\* m = MultiComponent(inner, a).
InitErr ==
    LET r == Or(ErrPool, AComponent(1), AComponent(2))
        inner == to_task(r.list, "inner")
        h == Folded(r.heap, ATask(inner))
        m == Normalize(h, <<ATask(inner), AComponent(3)>>, 1, <<>>)
    IN  /\ comps = h
        /\ lists = {r.list}
        /\ tasks = {inner}
        /\ multis = {MultiComponent(m.tasks, NoName)}
        /\ ret = NoRet
        /\ clean = TRUE
        /\ made = <<>>

\* The positional arguments these programs call tasks and MultiComponents with.
ErrInputs == { <<IntV(6)>>, <<IntV(6), IntV(6)>> }

NextErr ==
    \/ \E x \in Operands, y \in Operands : DisciplinedChain(x, y)
    \/ \E l \in lists : ToTask(l, "outer")
    \/ \E t \in tasks, a \in ErrInputs : Call(t, a)
    \/ \E t \in tasks, a \in ErrInputs : Inverse(t, a)
    \/ \E m \in multis, a \in ErrInputs : CallMulti(m, a)
    \/ \E m \in multis, a \in ErrInputs : InverseMulti(m, a)

SpecErr == InitErr /\ [][NextErr]_vars

(***************************************************************************)
(* Programs that embed one Task in several chains                          *)
(***************************************************************************)

\* Bound of the model: Components made by folding a Task or MultiComponent.
MaxFolds == 2

\* add(2), subtract(5), add(3), subtract(3)
FoldPool ==
    Append(InversePool,
           Component(Method("subtract.__call__", 3), Method("subtract.inverse", 3),
                     "subtract"))

\* z is an operand that | folds: a Task or a MultiComponent.
Folds(z) == z.kind \in {"Task", "MultiComponent"}

\* result = x | y with a Task or MultiComponent on at least one side, the
\* link joining free ends.
Embed(x, y) ==
    /\ Folds(x) \/ Folds(y)
    /\ Linking(x, y)
    /\ clean'
    /\ Len(comps') <= Len(FoldPool) + MaxFolds

\* The state after a = add(2); s = subtract(5); b = add(3); d = subtract(3);
\* inner = (a | s).to_task("inner"); m = MultiComponent(inner, b).
InitFold ==
    LET r == Or(FoldPool, AComponent(1), AComponent(2))
        inner == to_task(r.list, "inner")
        m == Normalize(r.heap, <<ATask(inner), AComponent(3)>>, 1, <<>>)
    IN  /\ comps = r.heap
        /\ lists = {r.list}
        /\ tasks = {inner}
        /\ multis = {MultiComponent(m.tasks, NoName)}
        /\ ret = NoRet
        /\ clean = TRUE
        /\ made = <<>>

NextFold ==
    \/ \E x \in Operands, y \in Operands : Embed(x, y)
    \/ \E t \in tasks, a \in Inputs : Call(t, a)

SpecFold == InitFold /\ [][NextFold]_vars

(***************************************************************************)
(* Properties                                                              *)
(***************************************************************************)

\* The last operation ran a Task.
Ran == ret.op \in {"call", "inverse", "back"}

\* The components a trace shows invoked at _level 0, in order.
TopLevel(trace) ==
    LET top == SelectSeq(trace, LAMBDA e : e.level = 0)
    IN  [i \in 1..Len(top) |-> top[i].c]

\* *v: a tuple of k values is k arguments, any other value is one argument.
Star(v) == IF v.t = "tuple" THEN v.items ELSE <<v>>

\* cn.func(...c2.func(*c1.func(*a))...) for the components cs = c1..cn,
\* v being the value the components before cs returned.
RECURSIVE Thread(_, _, _)
Thread(h, cs, v) ==
    IF cs = <<>> THEN v
    ELSE Thread(h, Tail(cs), Apply(h, h[Head(cs)].func, Star(v), 1).val)

RECURSIVE TrueInverses(_, _, _)
TrueInverse(h, c, depth) ==
    \/ /\ c.func.fn \in {"add.__call__", "subtract.__call__"}
       /\ c.inverse_func =
            Method(IF c.func.fn = "add.__call__" THEN "add.inverse"
                   ELSE "subtract.inverse", c.func.a)
    \/ c.func = identity /\ c.inverse_func = identity
    \/ /\ c.func.fn = "Task.__call__"
       /\ c.inverse_func = CallOf("Task.inverse", c.func.obj)
       /\ depth > 0
       /\ TrueInverses(h, c.func.obj, depth - 1)

TrueInverses(h, t, depth) ==
    LET it == Iter(h, t.components)
        ri == reverse_iter(h, t.components)
    IN  /\ it.done /\ ri.done
        /\ \A i \in 1..Len(it.items) : TrueInverse(h, h[it.items[i]], depth)
        /\ \A i \in 1..Len(ri.items) : TrueInverse(h, h[ri.items[i]], depth)

\* C2: for a Task whose components all have true inverses,
\* task.inverse(task(x)) == x, and Task.inverse runs the components the
\* forward run ran, last to first, once each.
C2_InverseRoundTrip ==
    (ret.op = "back" /\ TrueInverses(comps, ret.task, RecursionLimit)) =>
        /\ ret.res.status = "ok"
        /\ ret.res.val = ret.x
        /\ TopLevel(ret.res.trace) = Reversed(Iter(comps, ret.task.components).items)

\* The chain invariant of a ComponentList: the walk from first along next
\* ends and passes last, the walk from last along prev ends and passes first.
ChainInvariant(h, l) ==
    LET it == Iter(h, l)
        ri == reverse_iter(h, l)
    IN  /\ it.done
        /\ ri.done
        /\ \E i \in 1..Len(it.items) : it.items[i] = l.last
        /\ \E i \in 1..Len(ri.items) : ri.items[i] = l.first

\* C3: for every ComponentList that exists, list(chain) ==
\* list(reversed(list(chain.reverse_iter()))).  Stated for the programs that
\* only ever join two chains at their free ends; it fails even for those.
C3_IterReversesReverseIter ==
    clean => \A l \in lists :
                LET it == Iter(comps, l)
                    ri == reverse_iter(comps, l)
                IN  it.done /\ ri.done /\ it.items = Reversed(ri.items)

Unlinked(h) == [i \in DOMAIN h |-> [h[i] EXCEPT !.next = None, !.prev = None]]

\* (A | B) | C
LeftAssoc(h) ==
    LET ab == Or(h, AComponent(1), AComponent(2))
    IN  Or(ab.heap, AList(ab.list), AComponent(3))

\* A | (B | C)
RightAssoc(h) ==
    LET bc == Or(h, AComponent(2), AComponent(3))
    IN  Or(bc.heap, AComponent(1), AList(bc.list))

\* component.name or "(unnamed)"
Shown(name) == IF name # NoName THEN name ELSE "(unnamed)"

\* C5: for unlinked Components A, B, C, whichever of (A | B) | C and
\* A | (B | C) the program computed, the result iterates [A, B, C] and
\* displays as 'A -> B -> C' ('(unnamed)' for a nameless one), and the two
\* associations of the same three Components give the same sequence and the
\* same string.
C5_Associative ==
    (ret.op = "or" /\ Cardinality(lists) = 2) =>
        LET u == Unlinked(comps)
            L == LeftAssoc(u)
            R == RightAssoc(u)
            abc == <<Shown(comps[1].name), " -> ", Shown(comps[2].name), " -> ",
                     Shown(comps[3].name)>>
        IN  /\ Iter(comps, ret.list) = [items |-> <<1, 2, 3>>, done |-> TRUE]
            /\ ListStr(comps, ret.list) = abc
            /\ Iter(L.heap, L.list) = Iter(R.heap, R.list)
            /\ ListStr(L.heap, L.list) = ListStr(R.heap, R.list)
            /\ ret.list \in {L.list, R.list}

\* A | (B | C), through the reflected __ror__ and add_before, with B unnamed.
C5_Witness ==
    /\ ret.op = "or"
    /\ ret.x = AComponent(1)
    /\ ret.y = AList(ComponentList(2, 3))
    /\ ListStr(comps, ret.list) = <<"foo", " -> ", "(unnamed)", " -> ", "baz">>

\* seqs[1] \o seqs[2] \o ...
RECURSIVE Flatten(_)
Flatten(seqs) == IF seqs = <<>> THEN <<>> ELSE Head(seqs) \o Flatten(Tail(seqs))

\* The last operation called a MultiComponent, forward or inverse.
RanMulti == ret.op \in {"mcall", "minverse"}

\* task(arg) or task.inverse(arg) as the MultiComponent called at _level 0
\* runs it: at _level 1.
SubRun(h, task, arg, fwd) ==
    IF fwd THEN TaskCall(h, task, <<arg>>, 1) ELSE TaskInverse(h, task, <<arg>>, 1)

\* C6: a MultiComponent of N tasks called (forward or inverse) with a number
\* of arguments other than N raises ValueError and has run nothing; called
\* with N arguments whose sub-runs all succeed, it has run task i on
\* argument i in index order and returned the tuple of their results.
C6_ArityCheck ==
    RanMulti =>
        LET m == ret.multi
            a == ret.args
            N == Len(m.tasks)
            each == [i \in 1..N |-> SubRun(comps, m.tasks[i], a[i], ret.op = "mcall")]
        IN  IF Len(a) # N
            THEN ret.res = Raise("ValueError", "MultiComponent")
            ELSE (\A i \in 1..N : each[i].status = "ok") =>
                    /\ ret.res.status = "ok"
                    /\ ret.res.val = TupV([i \in 1..N |-> each[i].val])
                    /\ ret.res.trace = Flatten([i \in 1..N |-> each[i].trace])

\* test_multicomponent: multi(add(3), subtract(6)) called with (5, 7, 9) has
\* raised ValueError before running anything, and it returns (8, 1) for (5, 7).
C6_Witness ==
    /\ ret.op = "mcall"
    /\ made = <<AComponent(1), AComponent(2)>>
    /\ ret.args = <<IntV(5), IntV(7), IntV(9)>>
    /\ ret.res.err.exc = "ValueError"
    /\ ret.res.trace = <<>>
    /\ MultiCall(comps, ret.multi, <<IntV(5), IntV(7)>>, 0).val = TupV(<<IntV(8), IntV(1)>>)

\* C7: MultiComponent(...) given an input that is not a Component, a
\* ComponentList, a Task or None raises TypeError and creates nothing.
C7_OnlyComposablesOrNone ==
    (/\ ret.op = "new"
     /\ \E i \in 1..Len(ret.inputs) :
           ret.inputs[i].kind = "value" /\ ret.inputs[i].v # NoneV) =>
        (ret.err.exc = "TypeError" /\ multis = {})

\* C8: the task MultiComponent made for a None input returns its single
\* argument unchanged, forward and inverse, and a MultiComponent of None
\* inputs only, called with N arguments, returns them as a tuple.
C8_NoneIsIdentity ==
    (RanMulti /\ Len(ret.args) = Len(made)) =>
        LET N == Len(made)
            placeholder(i) == made[i] = AValue(NoneV)
        IN  /\ \A i \in 1..N : placeholder(i) =>
                  /\ SubRun(comps, ret.multi.tasks[i], ret.args[i], TRUE).status = "ok"
                  /\ SubRun(comps, ret.multi.tasks[i], ret.args[i], TRUE).val = ret.args[i]
                  /\ SubRun(comps, ret.multi.tasks[i], ret.args[i], FALSE).status = "ok"
                  /\ SubRun(comps, ret.multi.tasks[i], ret.args[i], FALSE).val = ret.args[i]
            /\ (\A i \in 1..N : placeholder(i)) =>
                  (ret.res.status = "ok" /\ ret.res.val = TupV(ret.args))

\* multi(None, None) called with (5, 7) has returned (5, 7).
C8_Witness ==
    /\ ret.op = "mcall"
    /\ made = <<AValue(NoneV), AValue(NoneV)>>
    /\ ret.args = <<IntV(5), IntV(7)>>
    /\ ret.res.status = "ok"
    /\ ret.res.val = TupV(<<IntV(5), IntV(7)>>)

\* C9: running a Task, forward or backward, changes no Component, no
\* ComponentList and no Task.
C9_RunLeavesComponents ==
    [][Ran' => UNCHANGED <<comps, lists, tasks, multis>>]_vars

\* A task of several components has run, and running it again from this state
\* executes the same components and returns the same.
C9_Witness ==
    /\ ret.op = "call"
    /\ Len(ret.res.trace) > 1
    /\ TaskCall(comps, ret.task, ret.args, 0) = ret.res

\* C10: when a component's func or inverse_func raises during a Task or
\* MultiComponent run, the run raises that same error and returns nothing;
\* the failing invocation is the last one made, and every invocation that
\* ended in an error ended in that error and is followed only by the
\* invocations nested inside it.
C10_ErrorsPropagate ==
    ((Ran \/ RanMulti) /\ ret.res.status = "raise" /\ ret.res.trace # <<>>) =>
        LET tr == ret.res.trace
            n == Len(tr)
        IN  /\ ret.res.val = NoVal
            /\ tr[n].err = ret.res.err
            /\ \A i \in 1..n :
                  tr[i].err # NoErr =>
                    /\ tr[i].err = ret.res.err
                    /\ \A j \in (i + 1)..n : tr[j].level > tr[i].level

\* A task whose first component is a folded sub-task has raised the
\* TypeError of the sub-task's second bar, after the first bar returned;
\* the components after the folded one were not invoked.
C10_Witness ==
    /\ ret.op = "call"
    /\ ret.res.status = "raise"
    /\ ret.res.err = [exc |-> "TypeError", by |-> "bar"]
    /\ Len(ret.res.trace) = 3
    /\ ret.res.trace[1].level = 0 /\ ret.res.trace[1].err = ret.res.err
    /\ ret.res.trace[2].level = 1 /\ ret.res.trace[2].err = NoErr
    /\ ret.res.trace[3].level = 1 /\ ret.res.trace[3].err = ret.res.err
    /\ Len(Iter(comps, ret.task.components).items) > 1

\* C11: after l2 = l1 | c (add_after) with c an unlinked Component and
\* l1.last the end of its chain, l1 is still the wrapper it was, with its
\* first and last, but iterating it yields what l2 yields, c at the end, so
\* the two have the same length; and a Task built from l1 before now runs
\* the components of l2, c included.
C11_WrapperAliasing ==
    (/\ ret.op = "or"
     /\ ret.x.kind = "ComponentList"
     /\ ret.y.kind = "Component"
     /\ ret.free
     /\ comps[ret.y.ref].next = None) =>
        LET l1 == ret.x.list
            c == ret.y.ref
            l2 == ret.list
            it1 == Iter(comps, l1)
            it2 == Iter(comps, l2)
        IN  /\ l1 \in lists
            /\ l1.last # c
            /\ l2 = ComponentList(l1.first, c)
            /\ it1.done /\ it2.done
            /\ it1.items = it2.items
            /\ Len(it1.items) = Len(it2.items)
            /\ it1.items[Len(it1.items)] = c
            /\ \A t \in tasks : \A a \in Inputs :
                  (t.components = l1 /\ TaskCall(comps, t, a, 0).status = "ok") =>
                      TopLevel(TaskCall(comps, t, a, 0).trace) = it2.items

\* t = (foo(c=3) | bar()).to_task() was built from l1, then l2 = l1 | baz():
\* t(1, 2) now returns 45, having run baz too.
C11_Witness ==
    /\ ret.op = "or"
    /\ ret.x = AList(ComponentList(1, 2))
    /\ ret.y = AComponent(3)
    /\ \E t \in tasks :
          /\ t.components = ComponentList(1, 2)
          /\ TaskCall(comps, t, <<IntV(1), IntV(2)>>, 0).val = IntV(45)
          /\ TopLevel(TaskCall(comps, t, <<IntV(1), IntV(2)>>, 0).trace) = <<1, 2, 3>>

\* The elements of a sequence.
Range(s) == {s[i] : i \in 1..Len(s)}

\* The Components a Task runs, forward or backward, directly or through the
\* sub-tasks and MultiComponents folded into its chain.
RECURSIVE TaskComps(_, _, _)
TaskComps(h, t, depth) ==
    LET cs == Range(Iter(h, t.components).items)
                \cup Range(reverse_iter(h, t.components).items)
        inside(f) ==
            IF depth = 0 THEN {}
            ELSE IF f.fn \in {"Task.__call__", "Task.inverse"}
            THEN TaskComps(h, f.obj, depth - 1)
            ELSE IF f.fn \in {"MultiComponent.__call__", "MultiComponent.inverse"}
            THEN UNION {TaskComps(h, f.obj.tasks[i], depth - 1) :
                          i \in 1..Len(f.obj.tasks)}
            ELSE {}
    IN  cs \cup UNION {inside(h[c].func) \cup inside(h[c].inverse_func) : c \in cs}

\* The own Components of an operand that | folds.
OwnComps(h, z) ==
    IF z.kind = "Task" THEN TaskComps(h, z.task, RecursionLimit)
    ELSE UNION {TaskComps(h, z.multi.tasks[i], RecursionLimit) :
                  i \in 1..Len(z.multi.tasks)}

\* The Components an operand brings into the chain as they are.
OperandComps(h, o) ==
    CASE o.kind = "Component" -> {o.ref}
      [] o.kind = "ComponentList" ->
           Range(Iter(h, o.list).items) \cup Range(reverse_iter(h, o.list).items)
      [] OTHER -> {}

\* The func of the Component that folding z makes: z itself.
FoldOf(z) ==
    IF z.kind = "Task" THEN CallOf("Task.__call__", z.task)
    ELSE CallOf("MultiComponent.__call__", z.multi)

\* z(*a) for a Task or MultiComponent operand.
RunOf(h, z, a) ==
    IF z.kind = "Task" THEN TaskCall(h, z.task, a, 0) ELSE MultiCall(h, z.multi, a, 0)

\* The step x | y folded z: every own Component of z is as it was, z runs as
\* it did, standalone and through each new fold.
LeavesTask(z) ==
    /\ \A c \in OwnComps(comps, z) : comps'[c] = comps[c]
    /\ \A a \in Inputs : RunOf(comps', z, a) = RunOf(comps, z, a)
    /\ \A a \in Inputs : \A i \in (Len(comps) + 1)..Len(comps') :
          comps'[i].func = FoldOf(z) =>
              Apply(comps', comps'[i].func, a, 0) = RunOf(comps, z, a)

\* The step x | y made one new Component for each Task or MultiComponent
\* operand, and left alone every ComponentList that holds no Component of
\* the other operand.
FoldsFresh(x, y) ==
    /\ Len(comps') = Len(comps) + (IF Folds(x) THEN 1 ELSE 0) + (IF Folds(y) THEN 1 ELSE 0)
    /\ \A i \in 1..Len(comps) : comps'[i].func = comps[i].func
    /\ \A l \in lists :
          (Range(Iter(comps, l).items) \cup Range(reverse_iter(comps, l).items))
             \cap (OperandComps(comps, x) \cup OperandComps(comps, y)) = {} =>
               /\ Iter(comps', l) = Iter(comps, l)
               /\ reverse_iter(comps', l) = reverse_iter(comps, l)

\* The last step was x | y with a Task or MultiComponent among x, y.
Embedded == ret'.op = "or" /\ (Folds(ret'.x) \/ Folds(ret'.y))

\* C12 as written: every x | y that folds a Task or MultiComponent makes a
\* fresh Component, changes no link of the task's own components, and the
\* task runs the same afterwards, standalone and inside the chain.
C12_FoldLeavesTaskAlways ==
    [][Embedded =>
         /\ FoldsFresh(ret'.x, ret'.y)
         /\ Folds(ret'.x) => LeavesTask(ret'.x)
         /\ Folds(ret'.y) => LeavesTask(ret'.y)]_vars

\* C12, amended: the same, for a task none of whose own components is in
\* the other operand.
C12_FoldLeavesTask ==
    [][Embedded =>
         /\ FoldsFresh(ret'.x, ret'.y)
         /\ (Folds(ret'.x)
               /\ OwnComps(comps, ret'.x) \cap OperandComps(comps, ret'.y) = {})
               => LeavesTask(ret'.x)
         /\ (Folds(ret'.y)
               /\ OwnComps(comps, ret'.y) \cap OperandComps(comps, ret'.x) = {})
               => LeavesTask(ret'.y)]_vars

\* inner has been folded twice, into two chains that share no Component, and
\* still returns 3 for 6, running add(2) and subtract(5).
C12_Witness ==
    \E p \in lists, q \in lists :
        LET inner == Task(ComponentList(1, 2), "inner")
            ps == Range(Iter(comps, p).items)
            qs == Range(Iter(comps, q).items)
            folds(cs) == {c \in cs : comps[c].func = CallOf("Task.__call__", inner)}
        IN  /\ ps \cap qs = {}
            /\ (ps \cup qs) \cap {1, 2} = {}
            /\ folds(ps) # {} /\ folds(qs) # {}
            /\ inner \in tasks
            /\ TaskCall(comps, inner, <<IntV(6)>>, 0).val = IntV(3)
            /\ TopLevel(TaskCall(comps, inner, <<IntV(6)>>, 0).trace) = <<1, 2>>

====
